---- MODULE Spec2Model ----
(***************************************************************************)
(* A model of bootstrap/bpdoc/properties.go: the PropertyStruct/Property   *)
(* tree, its operations (Clone, Equal, Nest, GetByName, SetAnonymous,      *)
(* IncludeByTag/ExcludeByTag, SetDefaults), the tree builder               *)
(* (newPropertyStruct, structProperties, getType) and formatText.          *)
(*                                                                         *)
(* Go slices are modelled as they are laid out: a slice is a header        *)
(* [arr, len] pointing at a backing array kept in a heap.  parr is the     *)
(* heap of []Property backing arrays, sarr the heap of []string and        *)
(* []template.HTML backing arrays.  Copying a Property copies the headers, *)
(* not the arrays.  Strings that are taken apart by the code (names,       *)
(* paths, tag values, doc text) are sequences of one-character strings.    *)
(***************************************************************************)
EXTENDS Integers, Sequences, FiniteSets, TLC

VARIABLES parr, sarr, trees, ref, last, hist, steps, input, output

vars == <<parr, sarr, trees, ref, last, hist, steps, input, output>>

(***************************************************************************)
(* Bounds of the model.                                                    *)
(***************************************************************************)
MaxSteps == 3
MaxFilterSteps == 4
MaxText == 5
MaxFields == 2

(***************************************************************************)
(* Strings.                                                                *)
(***************************************************************************)
HasPrefix(s, p) == Len(p) <= Len(s) /\ SubSeq(s, 1, Len(p)) = p

RECURSIVE SplitFrom(_, _, _, _)
SplitFrom(s, sep, i, cur) ==
    IF i > Len(s) THEN <<cur>>
    ELSE IF s[i] = sep THEN <<cur>> \o SplitFrom(s, sep, i + 1, <<>>)
    ELSE SplitFrom(s, sep, i + 1, Append(cur, s[i]))

\* strings.Split(s, sep) for a one-character separator: never empty,
\* Split("", sep) is one empty string.
Split(s, sep) == SplitFrom(s, sep, 1, <<>>)

(***************************************************************************)
(* Slices and the heap.                                                    *)
(***************************************************************************)
NilSlice == [arr |-> 0, len |-> 0]
NilPtr == [arr |-> 0, idx |-> 0]

\* The elements a slice header shows of its backing array.
Elems(H, s) == IF s.len = 0 THEN <<>> ELSE SubSeq(H[s.arr], 1, s.len)

\* The value of a tree read through the heap: slices replaced by the
\* sequences they show.
RECURSIVE AbsProps(_, _, _)
AbsProp(P, S, p) ==
    [Name |-> p.Name, Type |-> p.Type, Tag |-> p.Tag, Text |-> p.Text,
     Default |-> p.Default, Anonymous |-> p.Anonymous,
     OtherNames |-> Elems(S, p.OtherNames),
     OtherTexts |-> Elems(S, p.OtherTexts),
     Properties |-> AbsProps(P, S, p.Properties)]
AbsProps(P, S, s) ==
    [i \in 1..s.len |-> AbsProp(P, S, P[s.arr][i])]

(***************************************************************************)
(* Equal and its helpers, on the values the slices show.                   *)
(***************************************************************************)
stringArrayEqual(a, b) ==
    /\ Len(a) = Len(b)
    /\ \A i \in 1..Len(a) : a[i] = b[i]

htmlArrayEqual(a, b) ==
    /\ Len(a) = Len(b)
    /\ \A i \in 1..Len(a) : a[i] = b[i]

\* Equal compares Name, Type, Tag, Text, Default, OtherNames, OtherTexts and
\* the sub-properties; the Anonymous field is not among them.
RECURSIVE Equal(_, _)
SameSubProperties(p, other) ==
    /\ Len(p.Properties) = Len(other.Properties)
    /\ \A i \in 1..Len(p.Properties) : Equal(p.Properties[i], other.Properties[i])

Equal(p, other) ==
    /\ p.Name = other.Name /\ p.Type = other.Type /\ p.Tag = other.Tag
    /\ p.Text = other.Text /\ p.Default = other.Default
    /\ stringArrayEqual(p.OtherNames, other.OtherNames)
    /\ htmlArrayEqual(p.OtherTexts, other.OtherTexts)
    /\ SameSubProperties(p, other)

\* Equal on two Property values held in the heap.
EqualH(P, S, p, q) == Equal(AbsProp(P, S, p), AbsProp(P, S, q))

(***************************************************************************)
(* Clone.  slices.Clone allocates a new backing array holding copies of    *)
(* the elements (headers included); the loop then replaces each element    *)
(* by its own Clone.  Only the Properties header is re-pointed.            *)
(***************************************************************************)
RECURSIVE CloneSlice(_, _), CloneElems(_, _, _)
CloneProp(P, p) ==
    LET r == CloneSlice(P, p.Properties)
    IN [P |-> r.P, prop |-> [p EXCEPT !.Properties = r.s]]

CloneElems(P, id, i) ==
    IF i > Len(P[id]) THEN P
    ELSE LET r == CloneProp(P, P[id][i])
         IN CloneElems([r.P EXCEPT ![id][i] = r.prop], id, i + 1)

CloneSlice(P, s) ==
    IF s.len = 0 THEN [P |-> P, s |-> NilSlice]
    ELSE LET id == Len(P) + 1
             P1 == Append(P, Elems(P, s))
         IN [P |-> CloneElems(P1, id, 1), s |-> [arr |-> id, len |-> s.len]]

(***************************************************************************)
(* nestUnique: a new array holding src's elements, then each element of    *)
(* target that is not Equal to an element already in it.  Elements are     *)
(* copied as they are: their headers keep pointing at the source's arrays. *)
(***************************************************************************)
RECURSIVE nestLoop(_, _, _, _, _)
nestLoop(P, S, ret, target, i) ==
    IF i > Len(target) THEN ret
    ELSE LET elem == target[i]
             isUnique == \A j \in 1..Len(ret) : ~EqualH(P, S, elem, ret[j])
         IN nestLoop(P, S, IF isUnique THEN Append(ret, elem) ELSE ret, target, i + 1)

nestUniqueKeepAll(P, S, src, target) ==
    LET ret == Elems(P, src) \o Elems(P, target)
    IN IF ret = <<>> THEN [P |-> P, s |-> NilSlice]
       ELSE [P |-> Append(P, ret), s |-> [arr |-> Len(P) + 1, len |-> Len(ret)]]

nestUnique(P, S, src, target) ==
    LET ret == nestLoop(P, S, Elems(P, src), Elems(P, target), 1)
    IN IF ret = <<>> THEN [P |-> P, s |-> NilSlice]
       ELSE [P |-> Append(P, ret), s |-> [arr |-> Len(P) + 1, len |-> Len(ret)]]

(***************************************************************************)
(* getByName: the first sibling whose path is the name is returned; the    *)
(* first sibling whose path plus "." is a prefix of the name is descended  *)
(* into, and the result of that descent is the result.                     *)
(***************************************************************************)
RECURSIVE getByName(_, _, _, _, _)
getByName(P, name, prefix, s, i) ==
    IF i > s.len THEN NilPtr
    ELSE LET path == prefix \o P[s.arr][i].Name
         IN IF path = name THEN [arr |-> s.arr, idx |-> i]
            ELSE IF HasPrefix(name, path \o <<".">>)
                 THEN getByName(P, name, path \o <<".">>, P[s.arr][i].Properties, 1)
                 ELSE getByName(P, name, prefix, s, i + 1)

(***************************************************************************)
(* Tags.  A Tag is the list of its key:"value" pairs; Get gives the value  *)
(* of the first pair with the key, or the empty string.                    *)
(***************************************************************************)
RECURSIVE TagGet(_, _)
TagGet(tag, key) ==
    IF tag = <<>> THEN <<>>
    ELSE IF Head(tag).key = key THEN Head(tag).val
    ELSE TagGet(Tail(tag), key)

hasTag(tag, key, value) ==
    LET entries == Split(TagGet(tag, key), ",")
    IN \E i \in 1..Len(entries) : entries[i] = value

(***************************************************************************)
(* filterPropsByTag: filtered shares the storage of props.  Each element   *)
(* is read from the array when its turn comes, its copy's Properties are   *)
(* filtered (in their own storage) and the copy is written at the next     *)
(* free place of the same array.                                           *)
(***************************************************************************)
RECURSIVE filterLoop(_, _, _, _, _, _, _)
filterLoop(P, s, i, n, key, value, exclude) ==
    IF i > s.len THEN [P |-> P, s |-> [arr |-> s.arr, len |-> n]]
    ELSE LET x == P[s.arr][i]
         IN IF hasTag(x.Tag, key, value) = ~exclude
            THEN LET r == filterLoop(P, x.Properties, 1, 0, key, value, exclude)
                     x2 == [x EXCEPT !.Properties = r.s]
                 IN filterLoop([r.P EXCEPT ![s.arr][n + 1] = x2], s, i + 1, n + 1,
                               key, value, exclude)
            ELSE filterLoop(P, s, i + 1, n, key, value, exclude)

filterPropsByTag(P, s, key, value, exclude) ==
    filterLoop(P, s, 1, 0, key, value, exclude)

(***************************************************************************)
(* The naming convention of proptools: a field name is the property name   *)
(* with its first letter in upper case, and back.                          *)
(***************************************************************************)
UpperOf(c) == CASE c = "a" -> "A" [] c = "b" -> "B" [] c = "c" -> "C" [] OTHER -> c
LowerOf(c) == CASE c = "A" -> "a" [] c = "B" -> "b" [] c = "C" -> "c" [] OTHER -> c

FieldNameForProperty(n) == IF n = <<>> THEN n ELSE <<UpperOf(n[1])>> \o Tail(n)
PropertyNameForField(n) == IF n = <<>> THEN n ELSE <<LowerOf(n[1])>> \o Tail(n)

(***************************************************************************)
(* Live values (reflect.Value).  kind is "scalar" (a string), "struct",    *)
(* "ptr" or "iface".  A struct's sub is the list of its fields             *)
(* [name, v]; a ptr's or iface's sub is the one value it holds (for a nil  *)
(* pointer, the zero value of its element type).                           *)
(***************************************************************************)
Scalar(s) == [kind |-> "scalar", val |-> s, nil |-> FALSE, sub |-> <<>>]
Struct(fs) == [kind |-> "struct", val |-> "", nil |-> FALSE, sub |-> fs]
Ptr(v, isNil) == [kind |-> "ptr", val |-> "", nil |-> isNil, sub |-> <<v>>]
Iface(v, isNil) == [kind |-> "iface", val |-> "", nil |-> isNil, sub |-> <<v>>]
Field(n, v) == [name |-> n, v |-> v]

NoField == [kind |-> "invalid", val |-> "", nil |-> TRUE, sub |-> <<>>]

RECURSIVE FieldFrom(_, _, _)
FieldFrom(fs, name, i) ==
    IF i > Len(fs) THEN NoField
    ELSE IF fs[i].name = name THEN fs[i].v
    ELSE FieldFrom(fs, name, i + 1)

\* defaults.FieldByName(name): the zero reflect.Value when there is none.
FieldByName(defaults, name) == FieldFrom(defaults.sub, name, 1)

\* reflect.DeepEqual(f.Interface(), reflect.Zero(f.Type()).Interface())
RECURSIVE IsZero(_)
IsZero(f) ==
    CASE f.kind = "scalar" -> f.val = ""
      [] f.kind = "struct" -> \A i \in 1..Len(f.sub) : IsZero(f.sub[i].v)
      [] OTHER -> f.nil

\* fmt.Sprintf("%v", f.Interface())
Sprint(f) == IF f.kind = "scalar" THEN f.val ELSE "&{}"

(***************************************************************************)
(* setDefaults.  The result is the heap and whether the walk panicked; a   *)
(* panic leaves the Defaults written before it in place.                   *)
(***************************************************************************)
RECURSIVE setDefaultsFrom(_, _, _, _)
setDefaultsFrom(P, s, i, defaults) ==
    IF i > s.len THEN [P |-> P, panic |-> FALSE]
    ELSE
      LET prop == P[s.arr][i]
          f0 == FieldByName(defaults, FieldNameForProperty(prop.Name))
          f1 == IF f0.kind = "iface" THEN f0.sub[1] ELSE f0
          f2 == IF f1.kind = "ptr" THEN f1.sub[1] ELSE f1
      IN IF f0 = NoField THEN [P |-> P, panic |-> TRUE]
         ELSE IF IsZero(f0) THEN setDefaultsFrom(P, s, i + 1, defaults)
         ELSE IF f1.kind = "ptr" /\ f1.nil THEN setDefaultsFrom(P, s, i + 1, defaults)
         ELSE IF f2.kind = "struct"
              THEN LET r == setDefaultsFrom(P, prop.Properties, 1, f2)
                   IN IF r.panic THEN r ELSE setDefaultsFrom(r.P, s, i + 1, defaults)
              ELSE setDefaultsFrom([P EXCEPT ![s.arr][i].Default = Sprint(f2)],
                                   s, i + 1, defaults)

setDefaultsAlwaysRecurse(P, s, defaults) ==
    LET RECURSIVE walk(_, _, _, _)
        walk(Q, t, i, d) ==
          IF i > t.len THEN [P |-> Q, panic |-> FALSE]
          ELSE
            LET prop == Q[t.arr][i]
                f0 == FieldByName(d, FieldNameForProperty(prop.Name))
                f1 == IF f0.kind = "iface" THEN f0.sub[1] ELSE f0
                f2 == IF f1.kind = "ptr" THEN f1.sub[1] ELSE f1
            IN IF f0 = NoField THEN [P |-> Q, panic |-> TRUE]
               ELSE IF f2.kind = "struct"
                    THEN LET r == walk(Q, prop.Properties, 1, f2)
                         IN IF r.panic THEN r ELSE walk(r.P, t, i + 1, d)
                    ELSE IF IsZero(f0) THEN walk(Q, t, i + 1, d)
                    ELSE walk([Q EXCEPT ![t.arr][i].Default = Sprint(f2)], t, i + 1, d)
    IN walk(P, s, 1, defaults)

setDefaults(P, s, defaults) == setDefaultsFrom(P, s, 1, defaults)

(***************************************************************************)
(* Building the first trees in the heap from their values.                 *)
(***************************************************************************)
AllocStrings(S, xs) ==
    IF xs = <<>> THEN [S |-> S, s |-> NilSlice]
    ELSE [S |-> Append(S, xs), s |-> [arr |-> Len(S) + 1, len |-> Len(xs)]]

RECURSIVE AllocProps(_, _, _), AllocElems(_, _, _, _, _)
AllocElems(P, S, vs, i, acc) ==
    IF i > Len(vs) THEN [P |-> P, S |-> S, acc |-> acc]
    ELSE LET v == vs[i]
             k == AllocProps(P, S, v.Properties)
             n == AllocStrings(k.S, v.OtherNames)
             x == AllocStrings(n.S, v.OtherTexts)
             p == [Name |-> v.Name, Type |-> v.Type, Tag |-> v.Tag, Text |-> v.Text,
                   Default |-> v.Default, Anonymous |-> v.Anonymous,
                   OtherNames |-> n.s, OtherTexts |-> x.s, Properties |-> k.s]
         IN AllocElems(k.P, x.S, vs, i + 1, Append(acc, p))

AllocProps(P, S, vs) ==
    IF vs = <<>> THEN [P |-> P, S |-> S, s |-> NilSlice]
    ELSE LET r == AllocElems(P, S, vs, 1, <<>>)
         IN [P |-> Append(r.P, r.acc), S |-> r.S,
             s |-> [arr |-> Len(r.P) + 1, len |-> Len(vs)]]

(***************************************************************************)
(* The first trees.  Property values as a caller or the builder makes      *)
(* them; the trees below are the ones the operations start from.           *)
(***************************************************************************)
NoTag == <<>>
TagKV == <<[key |-> "k", val |-> <<"v">>]>>
TagKUV == <<[key |-> "k", val |-> <<"u", ",", "v">>]>>

Prop(name, tag, kids) ==
    [Name |-> name, Type |-> <<"s">>, Tag |-> tag, Text |-> <<>>, Default |-> "",
     Anonymous |-> FALSE, OtherNames |-> <<>>, OtherTexts |-> <<>>,
     Properties |-> kids]

WithOthers(p, names, texts) ==
    [p EXCEPT !.OtherNames = names, !.OtherTexts = texts]

StartTrees ==
    { <<>>,
      << Prop(<<"a">>, TagKV, <<>>) >>,
      << Prop(<<"a">>, TagKV, << Prop(<<"b">>, TagKUV, <<>>) >>) >>,
      << Prop(<<"a">>, TagKV, << Prop(<<"a">>, NoTag, <<>>), Prop(<<"b">>, TagKV, <<>>) >>) >>,
      << WithOthers(Prop(<<"a">>, NoTag, <<>>), <<"c">>, <<"t">>),
         Prop(<<"b">>, TagKV, << Prop(<<"a">>, TagKV, <<>>) >>) >> }

\* The live instances SetDefaults is given.
LiveSet ==
    { Struct(<< Field(<<"A">>, Scalar("s")), Field(<<"B">>, Scalar("")) >>),
      Struct(<< Field(<<"A">>, Struct(<< Field(<<"A">>, Scalar("")),
                                            Field(<<"B">>, Scalar("s")) >>)),
                Field(<<"B">>, Ptr(Struct(<< Field(<<"A">>, Scalar("s")) >>), FALSE)) >>),
      Struct(<< Field(<<"A">>, Struct(<< Field(<<"A">>, Scalar("")) >>)) >>) }

Handles == {"A", "B", "C"}
Keys == {"k"}
Values == {<<"v">>}
LookupNames == { <<"a">>, <<"b">>, <<"a", ".", "b">>, <<"b", ".", "a">> }

(***************************************************************************)
(* State.  trees maps a handle to its PropertyStruct; ref is the pointer   *)
(* the last GetByName returned and the tree it was asked of; last is the   *)
(* operation that was just performed; hist records which Nest and Clone    *)
(* calls have been made.                                                   *)
(***************************************************************************)
PropertyStruct(name, s) == [Name |-> name, Text |-> "", Properties |-> s]

AbsTree(h) == AbsProps(parr, sarr, trees[h].Properties)

NoRef == [tree |-> "none", ptr |-> NilPtr]

InitHeap(a, b) ==
    LET ra == AllocProps(<<>>, <<>>, a)
        rb == AllocProps(ra.P, ra.S, b)
    IN /\ parr = rb.P
       /\ sarr = rb.S
       /\ trees = [h \in {"A", "B"} |->
                     IF h = "A" THEN PropertyStruct("A", ra.s)
                     ELSE PropertyStruct("B", rb.s)]

Init ==
    /\ \E a \in StartTrees, b \in StartTrees : InitHeap(a, b)
    /\ ref = NoRef
    /\ last = [op |-> "init", tree |-> "none", arg |-> "none", panic |-> FALSE]
    /\ hist = [nested |-> {}, cloneOf |-> "none", shared |-> FALSE]
    /\ steps = 0
    /\ input = <<>>
    /\ output = <<>>

Step(op, h, arg, panic) ==
    /\ steps' = steps + 1
    /\ last' = [op |-> op, tree |-> h, arg |-> arg, panic |-> panic]

CanStep(bound) == steps < bound /\ ~last.panic

\* ps.Clone(), the result kept as tree C.
Clone(h) ==
    /\ CanStep(MaxSteps)
    /\ h \in DOMAIN trees /\ "C" \notin DOMAIN trees
    /\ LET r == CloneSlice(parr, trees[h].Properties)
       IN /\ parr' = r.P
          /\ trees' = [x \in DOMAIN trees \cup {"C"} |->
                         IF x = "C" THEN [trees[h] EXCEPT !.Properties = r.s]
                         ELSE trees[x]]
    /\ hist' = [hist EXCEPT !.cloneOf = h]
    /\ Step("Clone", "C", h, FALSE)
    /\ UNCHANGED <<sarr, ref, input, output>>

NestOn(h, g, bound) ==
    /\ CanStep(bound)
    /\ h \in DOMAIN trees /\ g \in DOMAIN trees /\ h # g
    /\ LET r == nestUnique(parr, sarr, trees[h].Properties, trees[g].Properties)
       IN /\ parr' = r.P
          /\ trees' = [trees EXCEPT ![h].Properties = r.s]
    /\ hist' = [hist EXCEPT !.nested = @ \cup {<<h, g>>},
                            !.shared = @ \/ "C" \in {h, g}]
    /\ Step("Nest", h, g, FALSE)
    /\ UNCHANGED <<sarr, ref, input, output>>

\* ps.Nest(nested)
Nest(h, g) == NestOn(h, g, MaxSteps)

FilterByTag(h, key, value, exclude, bound) ==
    /\ CanStep(bound)
    /\ h \in DOMAIN trees
    /\ LET r == filterPropsByTag(parr, trees[h].Properties, key, value, exclude)
       IN /\ parr' = r.P
          /\ trees' = [trees EXCEPT ![h].Properties = r.s]
    /\ Step(IF exclude THEN "ExcludeByTag" ELSE "IncludeByTag", h,
            <<key, value>>, FALSE)
    /\ UNCHANGED <<sarr, ref, hist, input, output>>

\* ps.ExcludeByTag(key, value)
ExcludeByTag(h, key, value) == FilterByTag(h, key, value, TRUE, MaxSteps)

\* ps.IncludeByTag(key, value)
IncludeByTag(h, key, value) == FilterByTag(h, key, value, FALSE, MaxSteps)

\* ps.SetDefaults(defaults)
SetDefaultsOn(h, defaults, bound) ==
    /\ CanStep(bound)
    /\ h \in DOMAIN trees
    /\ LET r == setDefaults(parr, trees[h].Properties, defaults)
       IN /\ parr' = r.P
          /\ Step("SetDefaults", h, defaults, r.panic)
    /\ UNCHANGED <<sarr, trees, ref, hist, input, output>>

SetDefaults(h, defaults) == SetDefaultsOn(h, defaults, MaxSteps)

\* ref := ps.GetByName(name)
GetByName(h, name) ==
    /\ CanStep(MaxSteps)
    /\ h \in DOMAIN trees
    /\ ref' = [tree |-> h, ptr |-> getByName(parr, name, <<>>, trees[h].Properties, 1)]
    /\ Step("GetByName", h, name, FALSE)
    /\ UNCHANGED <<parr, sarr, trees, hist, input, output>>

HasRef == ref.ptr # NilPtr

\* The backing arrays a slice reaches through the elements it shows.
RECURSIVE Reach(_, _)
Reach(P, s) ==
    IF s.len = 0 THEN {}
    ELSE {s.arr} \cup UNION { Reach(P, P[s.arr][i].Properties) : i \in 1..s.len }
Target == parr[ref.ptr.arr][ref.ptr.idx]

\* ref.SetAnonymous()
SetAnonymous ==
    /\ CanStep(MaxSteps) /\ HasRef
    /\ parr' = [parr EXCEPT ![ref.ptr.arr][ref.ptr.idx].Anonymous = TRUE]
    /\ Step("SetAnonymous", ref.tree, "ref", FALSE)
    /\ UNCHANGED <<sarr, trees, ref, hist, input, output>>

\* ref.Nest(nested).  A caller does not nest a tree into one of its own
\* nodes: the copied headers would close a cycle and no walk of the tree
\* would end.
PropertyNest(g) ==
    /\ CanStep(MaxSteps) /\ HasRef
    /\ g \in DOMAIN trees
    /\ ref.ptr.arr \notin Reach(parr, trees[g].Properties)
    /\ LET r == nestUnique(parr, sarr, Target.Properties, trees[g].Properties)
       IN parr' = [r.P EXCEPT ![ref.ptr.arr][ref.ptr.idx].Properties = r.s]
    /\ hist' = [hist EXCEPT !.shared = @ \/ "C" \in {ref.tree, g}]
    /\ Step("PropertyNest", ref.tree, g, FALSE)
    /\ UNCHANGED <<sarr, trees, ref, input, output>>

\* ref.OtherNames[i] = s, or ref.OtherTexts[i] = s
WriteOther(which, i, s) ==
    /\ CanStep(MaxSteps) /\ HasRef
    /\ LET sl == IF which = "OtherNames" THEN Target.OtherNames ELSE Target.OtherTexts
       IN /\ i \in 1..sl.len
          /\ sarr' = [sarr EXCEPT ![sl.arr][i] = s]
    /\ Step("Write" \o which, ref.tree, "ref", FALSE)
    /\ UNCHANGED <<parr, trees, ref, hist, input, output>>

\* ref.Properties[i].Text = s: a write into an element of the Properties
\* sequence of the node.
WriteSub(i, s) ==
    /\ CanStep(MaxSteps) /\ HasRef
    /\ i \in 1..Target.Properties.len
    /\ parr' = [parr EXCEPT ![Target.Properties.arr][i].Text = s]
    /\ Step("WriteProperties", ref.tree, "ref", FALSE)
    /\ UNCHANGED <<sarr, trees, ref, hist, input, output>>

Next ==
    \/ \E h \in {"A", "B"} : Clone(h)
    \/ \E h, g \in Handles : Nest(h, g)
    \/ \E h \in Handles, k \in Keys, v \in Values : IncludeByTag(h, k, v)
    \/ \E h \in Handles, k \in Keys, v \in Values : ExcludeByTag(h, k, v)
    \/ \E h \in Handles, d \in LiveSet : SetDefaults(h, d)
    \/ \E h \in Handles, n \in LookupNames : GetByName(h, n)
    \/ SetAnonymous
    \/ \E g \in Handles : PropertyNest(g)
    \/ \E w \in {"OtherNames", "OtherTexts"} : WriteOther(w, 1, "w")
    \/ WriteSub(1, <<"w", "\n">>)

Spec == Init /\ [][Next]_vars

(***************************************************************************)
(* The filtering calls on their own, after Nest and SetDefaults calls.     *)
(***************************************************************************)
NextFilter ==
    \/ \E h, g \in {"A", "B"} : NestOn(h, g, MaxFilterSteps)
    \/ \E h \in {"A", "B"}, d \in LiveSet : SetDefaultsOn(h, d, MaxFilterSteps)
    \/ \E h \in {"A", "B"}, k \in Keys, v \in Values, e \in BOOLEAN :
          FilterByTag(h, k, v, e, MaxFilterSteps)

SpecFilter == Init /\ [][NextFilter]_vars

(***************************************************************************)
(* Values before and after a step.                                         *)
(***************************************************************************)
Before(h) == AbsProps(parr, sarr, trees[h].Properties)
After(h) == AbsProps(parr', sarr', trees'[h].Properties)

RECURSIVE PickFrom(_, _, _)
PickFrom(b, I, i) ==
    IF i > Len(b) THEN <<>>
    ELSE (IF i \in I THEN <<b[i]>> ELSE <<>>) \o PickFrom(b, I, i + 1)

\* The nodes of b that are Equal to no node of a and to no earlier node of b.
NewIn(a, b) ==
    { i \in 1..Len(b) :
        /\ \A j \in 1..Len(a) : ~Equal(b[i], a[j])
        /\ \A j \in 1..(i - 1) : ~Equal(b[i], b[j]) }

Merged(a, b) == a \o PickFrom(b, NewIn(a, b), 1)

\* C3: after A.Nest(B), and after Property.Nest, the Properties are the old
\* sequence followed by exactly the nodes of B that are Equal to no node
\* already present, in B's order; a second A.Nest(B) changes nothing.
C3_NestMerges ==
    [][ /\ last'.op = "Nest" =>
            /\ After(last'.tree) = Merged(Before(last'.tree), Before(last'.arg))
            /\ Merged(After(last'.tree), Before(last'.arg)) = After(last'.tree)
        /\ last'.op = "PropertyNest" =>
            AbsProp(parr', sarr', parr'[ref.ptr.arr][ref.ptr.idx]).Properties
              = Merged(AbsProp(parr, sarr, Target).Properties, Before(last'.arg))
        /\ (last.op = "Nest" /\ last'.op = "Nest" /\ last'.tree = last.tree
              /\ last'.arg = last.arg) => After(last'.tree) = Before(last'.tree)
      ]_vars

\* A Nest that kept the two old nodes, left out the two nodes of the other
\* tree that were Equal to them and appended the third.
C3_Witness ==
    /\ last.op = "Nest"
    /\ LET a == AbsTree(last.tree)
           b == AbsTree(last.arg)
       IN /\ Len(a) = 3 /\ Len(b) = 3
          /\ a[1] = b[2] /\ a[2] = b[3] /\ a[3] = b[1]

\* The nodes of a tree: the dotted path of each and the place it is held.
RECURSIVE Nodes(_, _, _)
Nodes(P, s, prefix) ==
    UNION { LET path == prefix \o P[s.arr][i].Name
            IN {[path |-> path, ptr |-> [arr |-> s.arr, idx |-> i]]}
               \cup Nodes(P, P[s.arr][i].Properties, path \o <<".">>)
          : i \in 1..s.len }

TreeNodes(h) == Nodes(parr, trees[h].Properties, <<>>)

\* C4: GetByName(P) returns a node whose dotted path is P when some node of
\* the tree has that path, and nil when none has.
C4_LookupFinds ==
    last.op = "GetByName" =>
        LET present == \E n \in TreeNodes(last.tree) : n.path = last.arg
        IN IF present
           THEN [path |-> last.arg, ptr |-> ref.ptr] \in TreeNodes(last.tree)
           ELSE ref.ptr = NilPtr

\* C10: after A.Nest(B), a later in-place mutation of A leaves B as it was.
C10_NestSharesNothing ==
    [][ \A h, g \in DOMAIN trees :
          ( /\ <<h, g>> \in hist.nested
            /\ last'.tree = h
            /\ last'.op \in {"IncludeByTag", "ExcludeByTag", "SetDefaults",
                             "SetAnonymous", "PropertyNest"} )
          => After(g) = Before(g)
      ]_vars

\* C1: after C := T.Clone(), a mutation of C does not change T and a
\* mutation of T does not change C.
MutatingOps ==
    {"Nest", "IncludeByTag", "ExcludeByTag", "SetDefaults", "SetAnonymous",
     "PropertyNest", "WriteOtherNames", "WriteOtherTexts", "WriteProperties"}

C1_CloneSharesNothing ==
    [][ ( /\ hist.cloneOf # "none"
          /\ ~hist'.shared
          /\ last'.op \in MutatingOps )
        => /\ last'.tree = "C" => After(hist.cloneOf) = Before(hist.cloneOf)
           /\ last'.tree = hist.cloneOf => After("C") = Before("C")
      ]_vars

RECURSIVE Kept(_, _, _, _)
Kept(v, key, value, exclude) ==
    LET I == { i \in 1..Len(v) : hasTag(v[i].Tag, key, value) = ~exclude }
        sel == PickFrom(v, I, 1)
    IN [i \in 1..Len(sel) |->
          [sel[i] EXCEPT !.Properties = Kept(sel[i].Properties, key, value, exclude)]]

\* C5: after IncludeByTag/ExcludeByTag the remaining nodes are exactly the
\* original nodes that pass the keep test and whose every ancestor passes
\* it, in their original order.
C5_FilterSelects ==
    [][ last'.op \in {"IncludeByTag", "ExcludeByTag"} =>
          After(last'.tree) = Kept(Before(last'.tree), last'.arg[1], last'.arg[2],
                                   last'.op = "ExcludeByTag")
      ]_vars

(***************************************************************************)
(* formatText.  The text is a sequence of characters; the result is the    *)
(* sequence of the pieces appended to html: the two markers, the escaped   *)
(* characters of each line and the line breaks.                            *)
(***************************************************************************)
PreOpen == "<pre>\n\n"
PreClose == "</pre>\n"

\* unicode.IsSpace of the first rune; the empty line decodes to RuneError.
IsSpace(c) == c \in {" ", "\t"}
Indent(line) == line # <<>> /\ IsSpace(line[1])

\* template.HTMLEscapeString, a character at a time.
EscapeChar(c) ==
    CASE c = "<" -> "&lt;" [] c = ">" -> "&gt;" [] c = "&" -> "&amp;"
      [] OTHER -> c
HTMLEscapeString(line) == [i \in 1..Len(line) |-> EscapeChar(line[i])]

RECURSIVE formatLines(_, _, _, _)
formatLines(lines, i, preformatted, html) ==
    IF i > Len(lines)
    THEN IF preformatted THEN Append(html, PreClose) ELSE html
    ELSE LET line == lines[i]
             indent == Indent(line)
             opens == indent /\ ~preformatted
             closes == ~opens /\ ~indent /\ line # <<>> /\ preformatted
             h1 == IF opens THEN Append(html, PreOpen)
                   ELSE IF closes THEN Append(html, PreClose)
                   ELSE html
             pre == IF opens THEN TRUE ELSE IF closes THEN FALSE ELSE preformatted
         IN formatLines(lines, i + 1, pre,
                        h1 \o HTMLEscapeString(line) \o <<"\n">>)

formatTextNoFinalClose(text) ==
    LET RECURSIVE go(_, _, _, _)
        go(lines, i, preformatted, html) ==
          IF i > Len(lines) THEN html
          ELSE LET line == lines[i]
                   opens == Indent(line) /\ ~preformatted
                   closes == ~Indent(line) /\ line # <<>> /\ preformatted
                   h1 == IF opens THEN Append(html, PreOpen)
                         ELSE IF closes THEN Append(html, PreClose) ELSE html
               IN go(lines, i + 1, (preformatted \/ opens) /\ ~closes,
                     h1 \o HTMLEscapeString(line) \o <<"\n">>)
    IN go(Split(text, "\n"), 1, FALSE, <<>>)

formatText(text) == formatLines(Split(text, "\n"), 1, FALSE, <<>>)

(***************************************************************************)
(* Type expressions (go/ast) and the tree builder.                         *)
(***************************************************************************)
Ident(n) == [shape |-> "Ident", name |-> n, x |-> <<>>, fields |-> <<>>]
Star(x) == [shape |-> "StarExpr", name |-> <<>>, x |-> <<x>>, fields |-> <<>>]
Array(x) == [shape |-> "ArrayType", name |-> <<>>, x |-> <<x>>, fields |-> <<>>]
Interface == [shape |-> "InterfaceType", name |-> <<>>, x |-> <<>>, fields |-> <<>>]
StructT(fs) == [shape |-> "StructType", name |-> <<>>, x |-> <<>>, fields |-> fs]
\* X[Index]
Index(x, i) == [shape |-> "IndexExpr", name |-> <<>>, x |-> <<x, i>>, fields |-> <<>>]
\* X.Sel
Selector(x, sel) == [shape |-> "SelectorExpr", name |-> sel, x |-> <<x>>, fields |-> <<>>]
MapT == [shape |-> "MapType", name |-> <<>>, x |-> <<>>, fields |-> <<>>]

\* A field of a struct type: Names is empty for an embedded field; Tag is
\* the tag literal, if any, and whether it is a valid quoted string.
AstField(names, type, tag, doc) == [Names |-> names, Type |-> type, Tag |-> tag, Doc |-> doc]
NoLit == [present |-> FALSE, quoted |-> FALSE, text |-> <<>>]
Lit(tag) == [present |-> TRUE, quoted |-> TRUE, text |-> tag]
BadLit == [present |-> TRUE, quoted |-> FALSE, text |-> <<>>]

\* strconv.Unquote
Unquote(lit) == IF lit.quoted THEN [s |-> lit.text, err |-> "nil"]
                ELSE [s |-> <<>>, err |-> "invalid syntax"]

ConfigurableName == <<"C", "o", "n", "f", "i", "g", "u", "r", "a", "b", "l", "e">>
ProptoolsName == <<"p", "r", "o", "p", "t", "o", "o", "l", "s">>

isConfigurableAst(expr) ==
    CASE expr.shape = "Ident" -> expr.name = ConfigurableName
      [] expr.shape = "SelectorExpr" ->
            /\ expr.x[1].shape = "Ident" /\ expr.x[1].name = ProptoolsName
            /\ expr.name = ConfigurableName
      [] OTHER -> FALSE

\* fmt.Sprintf("%T", expr)
GoTypeName(expr) == <<"*ast." \o expr.shape>>

\* The default case of the type switch: the Go type of the expression is the
\* descriptor, and there is no error.
defaultTypeIsError(expr) == [typ |-> <<>>, innerProps |-> <<>>, err |-> "unknown type"]

defaultType(expr) == [typ |-> GoTypeName(expr), innerProps |-> <<>>, err |-> "nil"]

RECURSIVE getType(_), structFields(_, _, _), fieldNames(_, _, _, _)

getType(expr) ==
    LET t == IF expr.shape = "StarExpr" THEN expr.x[1] ELSE expr
        fail(e) == [typ |-> <<>>, innerProps |-> <<>>, err |-> e]
    IN CASE t.shape = "ArrayType" ->
              LET r == getType(t.x[1])
              IN IF r.err # "nil" THEN fail(r.err)
                 ELSE [typ |-> <<"list of ">> \o r.typ, innerProps |-> r.innerProps,
                       err |-> "nil"]
         [] t.shape = "InterfaceType" ->
              [typ |-> <<"interface">>, innerProps |-> <<>>, err |-> "nil"]
         [] t.shape = "Ident" ->
              [typ |-> t.name, innerProps |-> <<>>, err |-> "nil"]
         [] t.shape = "StructType" ->
              LET r == structFields(t.fields, 1, <<>>)
              IN IF r.err # "nil" THEN fail(r.err)
                 ELSE [typ |-> <<>>, innerProps |-> r.props, err |-> "nil"]
         [] t.shape = "IndexExpr" ->
              IF ~isConfigurableAst(t.x[1]) THEN fail("unknown type")
              ELSE LET r == getType(t.x[2])
                   IN IF r.err # "nil" THEN fail(r.err)
                      ELSE [typ |-> <<"configurable ">> \o r.typ,
                            innerProps |-> r.innerProps, err |-> "nil"]
         [] OTHER -> defaultType(expr)

\* The names a field is given: its own, or for an embedded field the
\* identifier of its type when the type is a bare identifier.
namesOfAnyEmbedded(f) ==
    IF f.Names # <<>> THEN f.Names
    ELSE IF f.Type.shape = "Ident" THEN <<f.Type.name>>
    ELSE IF f.Type.shape = "StarExpr" /\ f.Type.x[1].shape = "Ident"
         THEN <<f.Type.x[1].name>>
    ELSE << <<>> >>

namesOf(f) ==
    IF f.Names # <<>> THEN f.Names
    ELSE IF f.Type.shape = "Ident" THEN <<f.Type.name>>
    ELSE <<>>

\* The loop over the names of one field.
fieldNames(f, names, j, props) ==
    IF j > Len(names) THEN [props |-> props, err |-> "nil"]
    ELSE LET name == PropertyNameForField(names[j])
             text == f.Doc
             u == IF f.Tag.present THEN Unquote(f.Tag) ELSE [s |-> <<>>, err |-> "nil"]
             r == getType(f.Type)
         IN IF u.err # "nil" THEN [props |-> <<>>, err |-> u.err]
            ELSE IF r.err # "nil" THEN [props |-> <<>>, err |-> r.err]
            ELSE fieldNames(f, names, j + 1,
                   Append(props,
                     [Name |-> name, Type |-> r.typ, Tag |-> u.s,
                      Text |-> formatText(text), Default |-> "",
                      Anonymous |-> FALSE, OtherNames |-> <<>>, OtherTexts |-> <<>>,
                      Properties |-> r.innerProps]))

\* The loop over the fields of a struct type.
structFields(fields, i, props) ==
    IF i > Len(fields) THEN [props |-> props, err |-> "nil"]
    ELSE LET r == fieldNames(fields[i], namesOf(fields[i]), 1, props)
         IN IF r.err # "nil" THEN [props |-> <<>>, err |-> r.err]
            ELSE structFields(fields, i + 1, r.props)

structProperties(structType) == structFields(structType.fields, 1, <<>>)

\* t is [Name, Doc, Type]: the declared name, the doc comment and the type
\* of the type spec.  The result is the tree (its value) and the error.
newPropertyStruct(t) ==
    IF t.Type.shape # "StructType"
    THEN [ok |-> FALSE, ps |-> <<>>, err |-> "not a struct"]
    ELSE LET r == structProperties(t.Type)
         IN IF r.err # "nil" THEN [ok |-> FALSE, ps |-> <<>>, err |-> r.err]
            ELSE [ok |-> TRUE, err |-> "nil",
                  ps |-> [Name |-> t.Name, Text |-> t.Doc, Properties |-> r.props]]

(***************************************************************************)
(* The pure functions, each applied once to an input drawn at the start.   *)
(***************************************************************************)
Idle ==
    /\ parr = <<>> /\ sarr = <<>> /\ trees = <<>>
    /\ ref = NoRef
    /\ last = [op |-> "init", tree |-> "none", arg |-> "none", panic |-> FALSE]
    /\ hist = [nested |-> {}, cloneOf |-> "none", shared |-> FALSE]
    /\ steps = 0
    /\ output = <<>>

Apply(op, result) ==
    /\ last.op = "init"
    /\ output' = result
    /\ Step(op, "none", "none", FALSE)
    /\ UNCHANGED <<parr, sarr, trees, ref, hist, input>>

\* Property.Equal
EqualVariants ==
    LET base == Prop(<<"a">>, TagKV, <<>>)
        kid == Prop(<<"b">>, NoTag, <<>>)
    IN { base,
         [base EXCEPT !.Name = <<"b">>],
         [base EXCEPT !.Type = <<"list of ", "s">>],
         [base EXCEPT !.Tag = TagKUV],
         [base EXCEPT !.Text = <<"t", "\n">>],
         [base EXCEPT !.Default = "d"],
         [base EXCEPT !.Anonymous = TRUE],
         [base EXCEPT !.OtherNames = <<"c">>],
         [base EXCEPT !.OtherNames = <<"c", "d">>],
         [base EXCEPT !.OtherNames = <<"d", "c">>],
         [base EXCEPT !.OtherTexts = <<"t">>],
         [base EXCEPT !.Properties = <<kid>>],
         [base EXCEPT !.Properties = <<kid, kid>>],
         [base EXCEPT !.Properties = <<[kid EXCEPT !.Default = "d"]>>],
         [base EXCEPT !.Properties = <<[kid EXCEPT !.Anonymous = TRUE]>>],
         [base EXCEPT !.Properties = <<[kid EXCEPT !.Properties = <<base>>]>>] }

InitEqual ==
    /\ Idle
    /\ input \in [a : EqualVariants, b : EqualVariants]

ApplyEqual == Apply("Equal", Equal(input.a, input.b))

SpecEqual == InitEqual /\ [][ApplyEqual]_vars

\* formatText
TextChars == {"a", " ", "<", "\n"}
Texts == UNION { [1..n -> TextChars] : n \in 0..MaxText }

InitFormat ==
    /\ Idle
    /\ input \in Texts

ApplyFormatText == Apply("formatText", formatText(input))

SpecFormat == InitFormat /\ [][ApplyFormatText]_vars

\* newPropertyStruct and getType
TypeS == Ident(<<"s">>)
TypeFoo == Ident(<<"F", "o", "o">>)
PlainTypes ==
    { TypeS, Star(TypeS), Array(TypeS), Interface, MapT, Star(MapT), Array(MapT),
      Star(Star(TypeS)), Selector(Ident(<<"p">>), <<"T">>),
      Index(Ident(ConfigurableName), TypeS),
      Index(Selector(Ident(ProptoolsName), ConfigurableName), Array(TypeS)),
      Index(Selector(Ident(<<"p">>), ConfigurableName), TypeS),
      Index(TypeFoo, TypeS),
      Array(Index(TypeFoo, TypeS)),
      Index(Ident(ConfigurableName), Index(TypeFoo, TypeS)) }

InnerFields ==
    { AstField(<< <<"A">> >>, TypeS, Lit(TagKV), <<>>),
      AstField(<<>>, Star(TypeFoo), NoLit, <<>>),
      AstField(<< <<"A">>, <<"B">> >>, MapT, NoLit, <<" ", "a">>),
      AstField(<< <<"A">> >>, Index(TypeFoo, TypeS), NoLit, <<>>),
      AstField(<<>>, Index(TypeFoo, TypeS), BadLit, <<>>) }

RecordTypes ==
    { StructT(<<f>>) : f \in InnerFields }
      \cup { Array(StructT(<<f>>)) : f \in InnerFields }
      \cup { StructT(<<AstField(<< <<"B">> >>, StructT(<<f>>), NoLit, <<>>)>>) : f \in InnerFields }

FieldTypes == PlainTypes \cup RecordTypes

\* The types a field can be embedded by: a type name, a qualified one or a
\* generic one, or a pointer to it.
EmbeddedTypes ==
    { TypeS, TypeFoo, Star(TypeFoo), Selector(Ident(<<"p">>), <<"T">>),
      Index(TypeFoo, TypeS), Index(Ident(ConfigurableName), TypeS) }

TopFields ==
    { AstField(n, ty, Lit(TagKV), <<>>) :
        n \in { << <<"A">> >>, << <<"A">>, <<"B">> >> }, ty \in FieldTypes }
      \cup { AstField(<<>>, ty, Lit(TagKV), <<>>) : ty \in EmbeddedTypes }
      \cup { AstField(n, TypeS, lit, <<"a", "\n", " ", "<">>) :
               n \in { <<>>, << <<"A">> >> }, lit \in {NoLit, BadLit} }

FieldLists == UNION { [1..n -> TopFields] : n \in 0..MaxFields }

InitBuild ==
    /\ Idle
    /\ \E ty \in PlainTypes \cup { StructT(fs) : fs \in FieldLists } :
          input = [Name |-> <<"T">>, Doc |-> <<>>, Type |-> ty]

ApplyNewPropertyStruct == Apply("newPropertyStruct", newPropertyStruct(input))

ApplyGetType == Apply("getType", getType(input.Type))

NextBuild == ApplyNewPropertyStruct \/ ApplyGetType

SpecBuild == InitBuild /\ [][NextBuild]_vars

\* SetDefaults on a freshly built tree
LiveValues ==
    { Scalar(""), Scalar("s"),
      Struct(<< Field(<<"A">>, Scalar("")) >>),
      Struct(<< Field(<<"A">>, Scalar("s")) >>),
      Struct(<< Field(<<"A">>, Scalar("")), Field(<<"B">>, Scalar("s")) >>),
      Ptr(Struct(<< Field(<<"A">>, Scalar("")) >>), TRUE),
      Ptr(Struct(<< Field(<<"A">>, Scalar("")) >>), FALSE),
      Ptr(Struct(<< Field(<<"A">>, Scalar("s")), Field(<<"B">>, Scalar("s")) >>), FALSE),
      Ptr(Scalar("s"), FALSE),
      Iface(Scalar(""), TRUE),
      Iface(Struct(<< Field(<<"B">>, Scalar("s")) >>), FALSE),
      Iface(Ptr(Struct(<< Field(<<"A">>, Scalar("s")), Field(<<"B">>, Scalar("")) >>), FALSE), FALSE),
      Iface(Ptr(Struct(<< Field(<<"B">>, Scalar("s")) >>), TRUE), FALSE) }

LiveStructs ==
    { Struct(<<>>) }
      \cup { Struct(<< Field(<<"A">>, x) >>) : x \in LiveValues }
      \cup { Struct(<< Field(<<"B">>, x) >>) : x \in LiveValues }
      \cup { Struct(<< Field(<<"A">>, x), Field(<<"B">>, y) >>) :
               x \in LiveValues, y \in {Scalar(""), Scalar("s")} }
      \cup { Struct(<< Field(<<"A">>, Scalar("s")), Field(<<"B">>, y) >>) :
               y \in LiveValues }

InitDefaults ==
    /\ \E a \in StartTrees : InitHeap(a, <<>>)
    /\ ref = NoRef
    /\ last = [op |-> "init", tree |-> "none", arg |-> "none", panic |-> FALSE]
    /\ hist = [nested |-> {}, cloneOf |-> "none", shared |-> FALSE]
    /\ steps = 0
    /\ input \in LiveStructs
    /\ output = <<>>

ApplySetDefaults == SetDefaultsOn("A", input, 1)

SpecDefaults == InitDefaults /\ [][ApplySetDefaults]_vars

(***************************************************************************)
(* Property.Equal                                                          *)
(***************************************************************************)
AgreeOnEverything(p, other) ==
    /\ p.Name = other.Name /\ p.Type = other.Type /\ p.Tag = other.Tag
    /\ p.Text = other.Text /\ p.Default = other.Default
    /\ p.Anonymous = other.Anonymous
    /\ p.OtherNames = other.OtherNames
    /\ p.OtherTexts = other.OtherTexts
    /\ Len(p.Properties) = Len(other.Properties)
    /\ \A i \in 1..Len(p.Properties) : Equal(p.Properties[i], other.Properties[i])

\* C2: Equal(a, b) is true exactly when a and b agree on Name, Type, Tag,
\* Text, Default and the Anonymous flag, on OtherNames and OtherTexts, and
\* their Properties are pairwise Equal in order.
C2_EqualIsFieldwise ==
    last.op = "Equal" => (output <=> AgreeOnEverything(input.a, input.b))

(***************************************************************************)
(* formatText                                                              *)
(***************************************************************************)
IsMarker(piece) == piece \in {PreOpen, PreClose}
Markers(html) == SelectSeq(html, IsMarker)

\* The flag before line i: the last non-empty line before it began with
\* whitespace.
FlagBefore(lines, i) ==
    \E j \in 1..(i - 1) :
        /\ Indent(lines[j])
        /\ \A k \in (j + 1)..(i - 1) : lines[k] = <<>>

RECURSIVE ExpectedHtml(_, _)
ExpectedHtml(lines, i) ==
    IF i > Len(lines)
    THEN IF FlagBefore(lines, i) THEN <<PreClose>> ELSE <<>>
    ELSE LET line == lines[i]
             marker == IF Indent(line) /\ ~FlagBefore(lines, i) THEN <<PreOpen>>
                       ELSE IF ~Indent(line) /\ line # <<>> /\ FlagBefore(lines, i)
                            THEN <<PreClose>>
                       ELSE <<>>
         IN marker \o HTMLEscapeString(line) \o <<"\n">> \o ExpectedHtml(lines, i + 1)

\* C6: the markers alternate open, close, from an open to a close; an open
\* stands exactly before a line that begins with whitespace while the flag
\* is false, a close exactly before a non-empty line that begins without
\* whitespace while the flag is true, and once at the end if the flag is
\* still true; an empty line emits no marker and leaves the flag.
C6_MarkersAlternate ==
    last.op = "formatText" =>
        LET m == Markers(output)
        IN /\ Len(m) % 2 = 0
           /\ \A i \in 1..Len(m) : m[i] = IF i % 2 = 1 THEN PreOpen ELSE PreClose
           /\ output = ExpectedHtml(Split(input, "\n"), 1)

\* Two blocks, the first closed by a line, the second by the end of the text.
C6_Witness ==
    /\ last.op = "formatText"
    /\ Len(Markers(output)) = 4
    /\ output[Len(output)] = PreClose

(***************************************************************************)
(* getType and newPropertyStruct                                           *)
(***************************************************************************)
Unwrapped(expr) == IF expr.shape = "StarExpr" THEN expr.x[1] ELSE expr

Recognised(t) ==
    \/ t.shape \in {"ArrayType", "InterfaceType", "Ident", "StructType"}
    \/ t.shape = "IndexExpr" /\ isConfigurableAst(t.x[1])

\* A field the builder makes properties of.
Visited(f) == f.Names # <<>> \/ f.Type.shape = "Ident"

\* Some type expression in expr, at any depth of the fields the builder
\* makes properties of, has an unrecognised shape.
RECURSIVE HasUnrecognised(_)
HasUnrecognised(expr) ==
    LET t == Unwrapped(expr)
    IN \/ ~Recognised(t)
       \/ t.shape = "ArrayType" /\ HasUnrecognised(t.x[1])
       \/ t.shape = "IndexExpr" /\ HasUnrecognised(t.x[2])
       \/ t.shape = "StructType"
            /\ \E i \in 1..Len(t.fields) :
                  Visited(t.fields[i]) /\ HasUnrecognised(t.fields[i].Type)

\* C7 as stated: every unrecognised shape is an unknown-type error, and a
\* record with such a field at any depth builds no tree.
C7_UnknownShapeFails ==
    /\ last.op = "getType" =>
          (~Recognised(Unwrapped(input.Type)) => output.err = "unknown type")
    /\ last.op = "newPropertyStruct" =>
          (HasUnrecognised(input.Type) => ~output.ok)

\* Resolution meets a generic instantiation whose base is not Configurable,
\* or an invalid tag literal, in a part of the expression it visits.
RECURSIVE Fails(_)
Fails(expr) ==
    LET t == Unwrapped(expr)
    IN \/ t.shape = "IndexExpr" /\ (~isConfigurableAst(t.x[1]) \/ Fails(t.x[2]))
       \/ t.shape = "ArrayType" /\ Fails(t.x[1])
       \/ t.shape = "StructType"
            /\ \E i \in 1..Len(t.fields) :
                  /\ Visited(t.fields[i])
                  /\ \/ t.fields[i].Tag.present /\ ~t.fields[i].Tag.quoted
                     \/ Fails(t.fields[i].Type)

\* C7, amended: only a generic instantiation whose base is not the
\* Configurable marker is an unknown-type error; any other shape outside the
\* recognised ones gets the Go type of the expression as its descriptor and
\* no error.  getType and the build fail exactly when a visited part of the
\* expression fails, and a failed build returns no tree.
C7_OnlyBadGenericFails ==
    /\ last.op = "getType" =>
          LET t == Unwrapped(input.Type)
          IN /\ (output.err # "nil") <=> Fails(input.Type)
             /\ (t.shape = "IndexExpr" /\ ~isConfigurableAst(t.x[1]))
                   => output.err = "unknown type"
             /\ (~Recognised(t) /\ t.shape # "IndexExpr")
                   => /\ output.err = "nil"
                      /\ output.typ = GoTypeName(input.Type)
             /\ output.err # "nil" => output.typ = <<>> /\ output.innerProps = <<>>
    /\ last.op = "newPropertyStruct" =>
          /\ output.ok <=> (input.Type.shape = "StructType" /\ ~Fails(input.Type))
          /\ ~output.ok => output.ps = <<>> /\ output.err # "nil"

\* A build that failed on a generic instantiation of Foo inside an inline
\* record, beside a map field that resolved to its fallback descriptor.
C7_Witness ==
    /\ last.op = "newPropertyStruct" /\ ~output.ok /\ output.err = "unknown type"
    /\ Len(input.Type.fields) = 2
    /\ input.Type.fields[1].Type.shape = "MapType"
    /\ input.Type.fields[2].Type.shape = "StructType"

\* The declared names of a record's fields, one more for each embedded field.
RECURSIVE CountDeclared(_, _)
CountDeclared(fields, i) ==
    IF i > Len(fields) THEN 0
    ELSE (IF fields[i].Names = <<>> THEN 1 ELSE Len(fields[i].Names))
         + CountDeclared(fields, i + 1)

\* The record a field's type resolves into, if it does: its fields.
RECURSIVE InnerRecord(_)
InnerRecord(expr) ==
    LET t == Unwrapped(expr)
    IN CASE t.shape = "StructType" -> t.fields
         [] t.shape = "ArrayType" -> InnerRecord(t.x[1])
         [] t.shape = "IndexExpr" -> InnerRecord(t.x[2])
         [] OTHER -> <<>>

\* The field each of those properties comes from.
RECURSIVE DeclaredFrom(_, _)
DeclaredFrom(fields, i) ==
    IF i > Len(fields) THEN <<>>
    ELSE [j \in 1..(IF fields[i].Names = <<>> THEN 1 ELSE Len(fields[i].Names)) |->
             fields[i]] \o DeclaredFrom(fields, i + 1)

RECURSIVE CountsMatch(_, _)
CountsMatch(props, fields) ==
    /\ Len(props) = CountDeclared(fields, 1)
    /\ \A k \in 1..Len(props) :
          CountsMatch(props[k].Properties,
                      InnerRecord(DeclaredFrom(fields, 1)[k].Type))

\* C8 as stated: one Property for each declared name and one for each
\* embedded field.
C8_OnePerNameAndEmbedded ==
    (last.op = "newPropertyStruct" /\ output.ok) =>
        CountsMatch(output.ps.Properties, input.Type.fields)

\* The places of the properties of a record: for each field in order, its
\* declared names, or for an embedded field whose type is a bare identifier
\* that identifier.
RECURSIVE Slots(_, _)
Slots(fields, i) ==
    IF i > Len(fields) THEN <<>>
    ELSE LET f == fields[i]
             ns == IF f.Names # <<>> THEN f.Names
                   ELSE IF f.Type.shape = "Ident" THEN <<f.Type.name>>
                   ELSE <<>>
         IN [j \in 1..Len(ns) |-> [name |-> ns[j], f |-> f]] \o Slots(fields, i + 1)

RECURSIVE BuiltFrom(_, _)
BuiltFrom(props, fields) ==
    LET sl == Slots(fields, 1)
    IN /\ Len(props) = Len(sl)
       /\ \A k \in 1..Len(sl) :
             /\ props[k].Name = PropertyNameForField(sl[k].name)
             /\ props[k].Tag = sl[k].f.Tag.text
             /\ props[k].Text = formatText(sl[k].f.Doc)
             /\ BuiltFrom(props[k].Properties, InnerRecord(sl[k].f.Type))

\* C8, amended: in declaration order, one Property for each declared name of
\* each field, sharing tag and doc, and one for each embedded field whose
\* type is a bare identifier, named from it; an embedded field of any other
\* type gets none.  The same holds in inline records.
C8_OnePerNameAndEmbeddedIdent ==
    (last.op = "newPropertyStruct" /\ output.ok) =>
        BuiltFrom(output.ps.Properties, input.Type.fields)

\* A build of two fields: one with two names, one embedded by identifier,
\* or one embedded through a pointer and dropped.
C8_Witness ==
    /\ last.op = "newPropertyStruct" /\ output.ok
    /\ Len(input.Type.fields) = 2
    /\ Len(input.Type.fields[1].Names) = 2
    /\ input.Type.fields[2].Names = <<>>
    /\ input.Type.fields[2].Type.shape = "StarExpr"
    /\ Len(output.ps.Properties) = 2

(***************************************************************************)
(* SetDefaults                                                             *)
(***************************************************************************)
\* The record a live value is, through an interface and a pointer.
RecordOf(f) ==
    LET f1 == IF f.kind = "iface" THEN f.sub[1] ELSE f
    IN IF f1.kind = "ptr" THEN f1.sub[1] ELSE f1

\* Some property, at any depth, has no field in the record type of the live
\* value at its place, whether the value there is zero, nil or neither.
RECURSIVE MissingAnywhere(_, _)
MissingAnywhere(props, d) ==
    \E i \in 1..Len(props) :
        LET f == FieldByName(d, FieldNameForProperty(props[i].Name))
        IN \/ f = NoField
           \/ /\ f # NoField
              /\ ~(f.kind = "iface" /\ f.nil)
              /\ RecordOf(f).kind = "struct"
              /\ MissingAnywhere(props[i].Properties, RecordOf(f))

\* C9 as stated: the walk panics exactly when some property at any depth has
\* no corresponding field, whatever the live values are.
C9_PanicsOnAnyMissing ==
    last.op = "SetDefaults" =>
        (last.panic <=> MissingAnywhere(AbsTree("A"), last.arg))

\* Some property the walk reaches has no field: every property above it has
\* a field holding a non-zero value that is, through an interface and a
\* non-nil pointer, a record.
RECURSIVE MissingReached(_, _)
MissingReached(props, d) ==
    \E i \in 1..Len(props) :
        LET f == FieldByName(d, FieldNameForProperty(props[i].Name))
        IN \/ f = NoField
           \/ /\ f # NoField
              /\ ~IsZero(f)
              /\ ~(f.kind = "iface" /\ f.sub[1].kind = "ptr" /\ f.sub[1].nil)
              /\ RecordOf(f).kind = "struct"
              /\ MissingReached(props[i].Properties, RecordOf(f))

\* C9, amended: the walk panics exactly when a property it reaches has no
\* corresponding field; properties under a field whose live value is zero,
\* nil or not a record are never looked up.
C9_PanicsOnReachedMissing ==
    last.op = "SetDefaults" =>
        (last.panic <=> MissingReached(AbsTree("A"), last.arg))

\* A walk that completed although a nested property has no field, its
\* enclosing record being zero.
C9_Witness ==
    /\ last.op = "SetDefaults" /\ ~last.panic
    /\ MissingAnywhere(AbsTree("A"), last.arg)

====
